---- MODULE Spec2Model ----
(***************************************************************************)
(* Subscription reconciliation: the Stripe webhook handler                 *)
(* (src/unnamed/part_000) and SubscriptionService                          *)
(* (src/src/components/BillingPage.tsx, lines 408-741) over one            *)
(* 'subscriptions' table.                                                  *)
(*                                                                         *)
(* Granularity.  Every awaited store call is one atomic step: the store    *)
(* executes the call and the handler's synchronous continuation runs.      *)
(* Handlers with two store calls (lookup, then write) are two steps and    *)
(* may interleave with every other step.  A store call may fail            *)
(* (ok = FALSE).  There is one clock; it only moves by Tick.               *)
(***************************************************************************)
EXTENDS Integers, Sequences, FiniteSets, TLC

\* ---- bounds of the model -------------------------------------------------
MaxOps == 2
MaxRows == 4
MaxInflight == 2
MaxTicks == 1
HistLen == 2
TicksPerDay == 2
MaxStart == 20

\* ---- values --------------------------------------------------------------
NULL == "null"
UNDEF == "undefined"

Owners == {"u1", "u2"}
PlanTypes == {"trial", "monthly", "semiannual", "annual"}
Statuses == {"active", "expired", "cancelled", "past_due"}
SubRefs == {"s1", "s2"}
Customer == "c1"

\* ---- the inputs tried ---------------------------------------------------
\* metadata.plan_type of a checkout session (it may be missing), and of a
\* payment intent
CheckoutPlans == {"annual", UNDEF}
IntentPlans == {"monthly"}
\* session.subscription
CheckoutSubs == {"s1"}
\* planType and stripeSubscriptionId of createSubscription: a trial has no
\* Stripe subscription
ApiArgs == {<<"trial", UNDEF>>} \cup {<<p, "s2">> : p \in PlanTypes \ {"trial"}}
\* the status given to updateSubscriptionStatus
ApiStatuses == {"active", "cancelled"}
\* the rows the table may hold at the start
SeedStatuses == {"active", "cancelled"}

\* 24 * 60 * 60 * 1000 ms, in clock units
Day == TicksPerDay
Jumps == {1, 30 * Day}

Max(a, b) == IF a >= b THEN a ELSE b

\* Math.ceil(a / b) for b > 0 (\div rounds towards minus infinity)
Ceil(a, b) == -((-a) \div b)

VARIABLES rows, now, ticks, inflight, hist, started, access

vars == <<rows, now, ticks, inflight, hist, started, access>>

\* ---- the store -----------------------------------------------------------
Ids(rs) == 1..Len(rs)

ByUser(rs, u) == {k \in Ids(rs) : rs[k].user_id = u}

\* .eq('stripe_subscription_id', s): SQL equality never matches NULL
BySub(rs, s) == {k \in Ids(rs) : s # NULL /\ rs[k].stripe_subscription_id = s}

\* .order('created_at', {ascending: false}).limit(1): the rows the store may
\* return; rows with equal created_at are returned in no defined order
Latest(rs, u) ==
  {k \in ByUser(rs, u) : \A j \in ByUser(rs, u) : rs[j].created_at <= rs[k].created_at}

\* a key whose value is undefined is dropped from the JSON payload
Keep(new, old) == IF new = UNDEF THEN old ELSE new

\* a column missing from an insert takes NULL
OrNull(v) == IF v = UNDEF THEN NULL ELSE v

\* ---- PeriodCalculator: the three switch statements -----------------------
\* webhookPeriodEnd with the year counted as twelve 30-day months
webhookPeriodEnd_360(t, planType) ==
  CASE planType = "monthly" -> t + 30 * Day
    [] planType = "semiannual" -> t + 180 * Day
    [] planType = "annual" -> t + 360 * Day
    [] OTHER -> t + 30 * Day

\* handleSubscriptionUpdate: periodEnd
webhookPeriodEnd(t, planType) ==
  CASE planType = "monthly" -> t + 30 * Day
    [] planType = "semiannual" -> t + 180 * Day
    [] planType = "annual" -> t + 365 * Day
    [] OTHER -> t + 30 * Day

\* createSubscription: periodEnd
createPeriodEnd(t, planType) ==
  CASE planType \in {"trial", "monthly"} -> t + 30 * Day
    [] planType = "semiannual" -> t + 180 * Day
    [] planType = "annual" -> t + 365 * Day
    [] OTHER -> t + 30 * Day

\* updateSubscription: periodEnd
updatePeriodEnd(t, planType) ==
  CASE planType \in {"trial", "monthly"} -> t + 30 * Day
    [] planType = "semiannual" -> t + 180 * Day
    [] planType = "annual" -> t + 365 * Day
    [] OTHER -> t + 30 * Day

\* ---- FeatureGate ---------------------------------------------------------
getTrialFeatures ==
  [maxCustomers |-> 100, maxBranches |-> 1, advancedAnalytics |-> FALSE,
   prioritySupport |-> FALSE, customBranding |-> FALSE, apiAccess |-> FALSE]

\* getPlanFeatures with customBranding and apiAccess kept for annual only
getPlanFeatures_annualOnly(planType) ==
  IF planType = "trial" THEN getTrialFeatures
  ELSE [maxCustomers |-> -1, maxBranches |-> -1, advancedAnalytics |-> TRUE,
        prioritySupport |-> TRUE, customBranding |-> planType = "annual",
        apiAccess |-> planType = "annual"]

getPlanFeatures(planType) ==
  IF planType = "trial" THEN getTrialFeatures
  ELSE [maxCustomers |-> -1, maxBranches |-> -1, advancedAnalytics |-> TRUE,
        prioritySupport |-> TRUE, customBranding |-> planType # "monthly",
        apiAccess |-> planType # "monthly"]

\* ---- AccessEvaluator -----------------------------------------------------
\* the decision for a missing record, and the catch branch of
\* checkSubscriptionAccess
FailOpen ==
  [hasAccess |-> TRUE, subscription |-> <<>>, features |-> getTrialFeatures,
   daysRemaining |-> 30]

\* fallbackAccessCheck with the status left out of hasAccess
fallbackAccessCheck_periodOnly(subscription, t) ==
  IF subscription = <<>> THEN FailOpen
  ELSE LET sub == subscription[1]
       IN [hasAccess |-> sub.current_period_end >= t,
           subscription |-> subscription,
           features |-> getPlanFeatures(sub.plan_type),
           daysRemaining |-> Max(0, Ceil(sub.current_period_end - t, Day))]

\* fallbackAccessCheck without Math.max(0, ...)
fallbackAccessCheck_unclamped(subscription, t) ==
  IF subscription = <<>> THEN FailOpen
  ELSE LET sub == subscription[1]
       IN [hasAccess |-> sub.status = "active" /\ sub.current_period_end > t,
           subscription |-> subscription,
           features |-> getPlanFeatures(sub.plan_type),
           daysRemaining |-> Ceil(sub.current_period_end - t, Day)]

\* fallbackAccessCheck with a grace for past_due records
fallbackAccessCheck_pastDueGrace(subscription, t) ==
  IF subscription = <<>> THEN FailOpen
  ELSE LET sub == subscription[1]
           endDate == sub.current_period_end
           daysRemaining == Ceil(endDate - t, Day)
       IN [hasAccess |-> sub.status \in {"active", "past_due"} /\ endDate > t,
           subscription |-> subscription,
           features |-> getPlanFeatures(sub.plan_type),
           daysRemaining |-> Max(0, daysRemaining)]

\* subscription: <<>> for null, <<row>> for a record; t: new Date()
fallbackAccessCheck(subscription, t) ==
  IF subscription = <<>> THEN FailOpen
  ELSE LET sub == subscription[1]
           endDate == sub.current_period_end
           daysRemaining == Ceil(endDate - t, Day)
       IN [hasAccess |-> sub.status = "active" /\ endDate > t,
           subscription |-> subscription,
           features |-> getPlanFeatures(sub.plan_type),
           daysRemaining |-> Max(0, daysRemaining)]

\* ---- bookkeeping ---------------------------------------------------------
\* A completed operation.  res: "200" / "400" for the webhook, "return" /
\* "throw" for a service call.  fail: what failed in it: "none", the store
\* "read", the store "write", the call to "stripe", or the "period" missing
\* from the subscription Stripe returned.
\* clean: no other operation wrote the store between its lookup and its
\* write.  had: the owner's rows at its lookup.  uniq: the owner's latest
\* row was unambiguous at its lookup.  id: the row it wrote (0: none).
Summary(n, op, user, plan, sub, res, body, fail, clean, had, uniq, id) ==
  [n |-> n, op |-> op, user |-> user, plan |-> plan, sub |-> sub, res |-> res,
   body |-> body, fail |-> fail, clean |-> clean, had |-> had,
   uniq |-> uniq, id |-> id]

Push(h, s) == IF Len(h) < HistLen THEN Append(h, s) ELSE Append(Tail(h), s)

Respond(s) == hist' = Push(hist, s)

\* an operation that is between its lookup and its write
Pending(n, op, user, plan, sub, cust, existing, path, pstart, pend) ==
  [n |-> n, op |-> op, user |-> user, plan |-> plan, sub |-> sub, cust |-> cust,
   now |-> now, existing |-> existing, path |-> path, pstart |-> pstart,
   pend |-> pend, clean |-> TRUE, had |-> Cardinality(ByUser(rows, user)),
   uniq |-> Cardinality(Latest(rows, user)) <= 1]

\* the store was written: every pending operation has been interleaved with
Dirty(ps) == {[q EXCEPT !.clean = FALSE] : q \in ps}

\* the store was written by p, which is complete
Written(p) == Dirty(inflight \ {p})

CanStart == started < MaxOps

CanSuspend == CanStart /\ Cardinality(inflight) < MaxInflight

\* ---- the webhook: requests answered without a store call -----------------
Reply(op, user, plan, sub, res, body, fail) ==
  /\ CanStart
  /\ started' = started + 1
  /\ Respond(Summary(started + 1, op, user, plan, sub, res, body, fail, TRUE, 0, TRUE, 0))
  /\ UNCHANGED <<rows, now, ticks, inflight, access>>

\* req.method === "OPTIONS"
Preflight == Reply("OPTIONS", NULL, NULL, NULL, "200", NULL, "none")

\* !signature
NoSignature == Reply("POST", NULL, NULL, NULL, "400", "No signature", "none")

\* BadSignature without the verification: the event is dispatched as the
\* customer.subscription.deleted it claims to be
BadSignature_unverified ==
  /\ CanStart
  /\ started' = started + 1
  /\ rows' = [k \in Ids(rows) |-> [rows[k] EXCEPT !.status = "cancelled",
                                                  !.updated_at = now]]
  /\ inflight' = Dirty(inflight)
  /\ Respond(Summary(started + 1, "POST", NULL, NULL, NULL, "200", "received",
                     "none", TRUE, 0, TRUE, 0))
  /\ UNCHANGED <<now, ticks, access>>

\* constructEventAsync throws: bad signature or unparsable body
BadSignature == Reply("POST", NULL, NULL, NULL, "400", "Webhook error", "none")

\* Unhandled answered as an error
Unhandled_rejects == Reply("other", NULL, NULL, NULL, "400", "Webhook error", "none")

\* default: of the switch
Unhandled == Reply("other", NULL, NULL, NULL, "200", "received", "none")

\* checkout.session.completed without metadata.user_id; payment_intent.succeeded
\* without metadata.user_id or metadata.plan_type
ActivationSkipped(op, user, plan) ==
  /\ \/ op = "checkout.session.completed" /\ user = UNDEF
     \/ op = "payment_intent.succeeded" /\ (user = UNDEF \/ plan = UNDEF)
  /\ Reply(op, user, plan, NULL, "200", "received", "none")

\* invoice.payment_succeeded / invoice.payment_failed without invoice.subscription
InvoiceSkipped(op) ==
  /\ op \in {"invoice.payment_succeeded", "invoice.payment_failed"}
  /\ Reply(op, NULL, NULL, NULL, "200", "received", "none")

\* ---- the webhook: subscription_activated ---------------------------------
\* The column default of plan_type when an insert carries none (the type
\* Subscription names 'trial' first)
DefaultPlan == "trial"

\* The column default now() of created_at and updated_at: the store's clock
\* when the row is inserted
ColumnNow(t) == t

\* subscriptionData, written over row r by .update(subscriptionData)
subscriptionUpdate(r, p) ==
  [r EXCEPT !.user_id = p.user,
            !.plan_type = Keep(p.plan, @),
            !.status = "active",
            !.stripe_customer_id = p.cust,
            !.stripe_subscription_id = OrNull(p.sub),
            !.current_period_start = p.now,
            !.current_period_end = webhookPeriodEnd(p.now, p.plan),
            !.updated_at = p.now]

\* subscriptionData as a new row: id and created_at are the store's
subscriptionInsert(id, p, t) ==
  [id |-> id, user_id |-> p.user,
   plan_type |-> IF p.plan = UNDEF THEN DefaultPlan ELSE p.plan,
   status |-> "active",
   stripe_customer_id |-> p.cust,
   stripe_subscription_id |-> OrNull(p.sub),
   current_period_start |-> p.now,
   current_period_end |-> webhookPeriodEnd(p.now, p.plan),
   created_at |-> ColumnNow(t), updated_at |-> p.now]

\* supabase.from('subscriptions').single(): the query names no column and
\* no filter, so it ranges over the whole table: one object when the table
\* holds exactly one row, otherwise PGRST116 (which the handler lets pass
\* with existingSubscription = null).  A client that rejects the call
\* outright is the failed lookup (ok = FALSE) of handleSubscriptionUpdate.
existingSubscription(rs) == IF Len(rs) = 1 THEN 1 ELSE 0

\* What handleSubscriptionUpdate does for userId on table rs when it runs
\* alone and the store answers: it inserts, it updates (both acknowledged),
\* or its update returns an error, which is thrown and answered 400
activationOutcome(rs, userId) ==
  IF existingSubscription(rs) = 0 THEN "insert"
  ELSE IF Cardinality(ByUser(rs, userId)) = 1 THEN "update"
  ELSE "reject"

\* handleSubscriptionUpdate up to the lookup.  A lookup error other than
\* PGRST116 is thrown and answered 400.
handleSubscriptionUpdate(op, user, plan, sub, ok) ==
  /\ op \in {"checkout.session.completed", "payment_intent.succeeded"}
  /\ user # UNDEF
  /\ op = "payment_intent.succeeded" => plan # UNDEF /\ sub = UNDEF
  /\ started' = started + 1
  /\ IF ok
     THEN /\ CanSuspend
          /\ inflight' = inflight \cup
               {Pending(started + 1, op, user, plan, sub, Customer,
                        existingSubscription(rows), "upsert", 0, 0)}
          /\ UNCHANGED hist
     ELSE /\ CanStart
          /\ Respond(Summary(started + 1, op, user, plan, sub, "400", "Webhook error",
                             "read", TRUE, Cardinality(ByUser(rows, user)), TRUE, 0))
          /\ UNCHANGED inflight
  /\ UNCHANGED <<rows, now, ticks, access>>

\* .update(subscriptionData).eq('user_id', userId).select().single(): an
\* error, and no change, unless exactly one row matches
handleSubscriptionUpdate_update(p, ok) ==
  /\ p \in inflight /\ p.path = "upsert" /\ p.existing # 0
  /\ LET hit == ByUser(rows, p.user)
         done == ok /\ Cardinality(hit) = 1
     IN /\ rows' = IF done
                   THEN [k \in Ids(rows) |->
                           IF k \in hit THEN subscriptionUpdate(rows[k], p) ELSE rows[k]]
                   ELSE rows
        /\ inflight' = IF done THEN Written(p) ELSE inflight \ {p}
        /\ Respond(Summary(p.n, p.op, p.user, p.plan, p.sub,
                           IF done THEN "200" ELSE "400",
                           IF done THEN "received" ELSE "Webhook error",
                           IF ok THEN "none" ELSE "write", p.clean, p.had, p.uniq,
                           IF done THEN CHOOSE k \in hit : TRUE ELSE 0))
  /\ UNCHANGED <<now, ticks, started, access>>

\* .insert(subscriptionData).select().single()
handleSubscriptionUpdate_insert(p, ok) ==
  /\ p \in inflight /\ p.path = "upsert" /\ p.existing = 0
  /\ ok => Len(rows) < MaxRows
  /\ rows' = IF ok THEN Append(rows, subscriptionInsert(Len(rows) + 1, p, now)) ELSE rows
  /\ inflight' = IF ok THEN Written(p) ELSE inflight \ {p}
  /\ Respond(Summary(p.n, p.op, p.user, p.plan, p.sub,
                     IF ok THEN "200" ELSE "400",
                     IF ok THEN "received" ELSE "Webhook error",
                     IF ok THEN "none" ELSE "write", p.clean, p.had, p.uniq,
                     IF ok THEN Len(rows) + 1 ELSE 0))
  /\ UNCHANGED <<now, ticks, started, access>>

\* ---- the webhook: reference-bound events ---------------------------------
\* statusUpdate without its .eq filter: every row is updated
statusUpdate_unfiltered(rs, sub, status, t) ==
  [k \in Ids(rs) |-> [rs[k] EXCEPT !.status = status, !.updated_at = t]]

\* statusUpdate that also ends the period at the time of the event
statusUpdate_endsPeriod(rs, sub, status, t) ==
  [k \in Ids(rs) |->
     IF k \in BySub(rs, sub)
     THEN [rs[k] EXCEPT !.status = status, !.updated_at = t,
                        !.current_period_end = Max(t, rs[k].current_period_start + 1)]
     ELSE rs[k]]

\* statusUpdate that deletes the cancelled records
statusUpdate_deletes(rs, sub, status, t) ==
  IF status = "cancelled"
  THEN SelectSeq(rs, LAMBDA r : ~(sub # NULL /\ r.stripe_subscription_id = sub))
  ELSE [k \in Ids(rs) |->
          IF k \in BySub(rs, sub)
          THEN [rs[k] EXCEPT !.status = status, !.updated_at = t]
          ELSE rs[k]]

\* statusUpdate with an ordering guard: cancelled records are left alone
statusUpdate_guarded(rs, sub, status, t) ==
  [k \in Ids(rs) |->
     IF k \in BySub(rs, sub) /\ rs[k].status # "cancelled"
     THEN [rs[k] EXCEPT !.status = status, !.updated_at = t]
     ELSE rs[k]]

\* .update({status, updated_at}).eq('stripe_subscription_id', sub)
statusUpdate(rs, sub, status, t) ==
  [k \in Ids(rs) |->
     IF k \in BySub(rs, sub)
     THEN [rs[k] EXCEPT !.status = status, !.updated_at = t]
     ELSE rs[k]]

\* invoice.payment_failed with invoice.subscription, and
\* customer.subscription.deleted: one update; its error is logged, and the
\* request is answered 200 either way
statusEvent(op, sub, ok) ==
  /\ op \in {"invoice.payment_failed", "customer.subscription.deleted"}
  /\ sub \in SubRefs
  /\ CanStart
  /\ started' = started + 1
  /\ LET status == IF op = "invoice.payment_failed" THEN "past_due" ELSE "cancelled"
     IN rows' = IF ok THEN statusUpdate(rows, sub, status, now) ELSE rows
  /\ inflight' = IF ok /\ BySub(rows, sub) # {} THEN Dirty(inflight) ELSE inflight
  /\ Respond(Summary(started + 1, op, NULL, NULL, sub, "200", "received",
                     IF ok THEN "none" ELSE "write", TRUE,
                     Cardinality(BySub(rows, sub)), TRUE, 0))
  /\ UNCHANGED <<now, ticks, access>>

\* stripe.subscriptions.retrieve throws: answered 400
invoicePaidRetrieveFails(sub) ==
  /\ sub \in SubRefs
  /\ Reply("invoice.payment_succeeded", NULL, NULL, sub, "400", "Webhook error", "stripe")

\* the period Stripe reports for the subscription (seconds * 1000)
\* given = FALSE: the object carries no current_period_start / _end
ReportedPeriods(t) ==
  {[given |-> TRUE, start |-> t, end |-> t + 5 * Day],
   [given |-> FALSE, start |-> 0, end |-> 0]}

\* invoicePaid that throws the error of .single(): not found is answered 400
invoicePaid_throws(sub, per, ok) ==
  /\ sub \in SubRefs
  /\ per \in ReportedPeriods(now)
  /\ started' = started + 1
  /\ IF ok /\ Cardinality(BySub(rows, sub)) = 1 /\ per.given
     THEN /\ CanSuspend
          /\ inflight' = inflight \cup
               {Pending(started + 1, "invoice.payment_succeeded", NULL, NULL, sub, NULL,
                        CHOOSE k \in BySub(rows, sub) : TRUE, "paid", per.start, per.end)}
          /\ UNCHANGED hist
     ELSE IF ok /\ Cardinality(BySub(rows, sub)) = 1
     THEN /\ CanStart
          /\ Respond(Summary(started + 1, "invoice.payment_succeeded", NULL, NULL, sub,
                             "400", "Webhook error", "period", TRUE, 1, TRUE, 0))
          /\ UNCHANGED inflight
     ELSE /\ CanStart
          /\ Respond(Summary(started + 1, "invoice.payment_succeeded", NULL, NULL, sub,
                             "400", "Webhook error", IF ok THEN "none" ELSE "read", TRUE,
                             Cardinality(BySub(rows, sub)), TRUE, 0))
          /\ UNCHANGED inflight
  /\ UNCHANGED <<rows, now, ticks, access>>

\* invoice.payment_succeeded up to the lookup
\* .select('user_id').eq('stripe_subscription_id', id).single(): only data is
\* read, so a failed lookup, no row and several rows all read as not found.
\* With a row found and no period in Stripe's object,
\* new Date(undefined * 1000).toISOString() throws before the update is sent:
\* answered 400.
invoicePaid(sub, per, ok) ==
  /\ sub \in SubRefs
  /\ per \in ReportedPeriods(now)
  /\ started' = started + 1
  /\ IF ok /\ Cardinality(BySub(rows, sub)) = 1 /\ per.given
     THEN /\ CanSuspend
          /\ inflight' = inflight \cup
               {Pending(started + 1, "invoice.payment_succeeded", NULL, NULL, sub, NULL,
                        CHOOSE k \in BySub(rows, sub) : TRUE, "paid", per.start, per.end)}
          /\ UNCHANGED hist
     ELSE IF ok /\ Cardinality(BySub(rows, sub)) = 1
     THEN /\ CanStart
          /\ Respond(Summary(started + 1, "invoice.payment_succeeded", NULL, NULL, sub,
                             "400", "Webhook error", "period", TRUE, 1, TRUE, 0))
          /\ UNCHANGED inflight
     ELSE /\ CanStart
          /\ Respond(Summary(started + 1, "invoice.payment_succeeded", NULL, NULL, sub,
                             "200", "received", IF ok THEN "none" ELSE "read", TRUE,
                             Cardinality(BySub(rows, sub)), TRUE, 0))
          /\ UNCHANGED inflight
  /\ UNCHANGED <<rows, now, ticks, access>>

\* .update({status: 'active', current_period_start, current_period_end,
\* updated_at}).eq('stripe_subscription_id', id); error logged, answered 200
invoicePaid_update(p, ok) ==
  /\ p \in inflight /\ p.path = "paid"
  /\ rows' = IF ok
             THEN [k \in Ids(rows) |->
                     IF k \in BySub(rows, p.sub)
                     THEN [rows[k] EXCEPT !.status = "active",
                                          !.current_period_start = p.pstart,
                                          !.current_period_end = p.pend,
                                          !.updated_at = p.now]
                     ELSE rows[k]]
             ELSE rows
  /\ inflight' = IF ok THEN Written(p) ELSE inflight \ {p}
  /\ Respond(Summary(p.n, p.op, NULL, NULL, p.sub, "200", "received",
                     IF ok THEN "none" ELSE "write", p.clean,
                     Cardinality(BySub(rows, p.sub)), TRUE, p.existing))
  /\ UNCHANGED <<now, ticks, started, access>>

\* ---- SubscriptionService -------------------------------------------------
\* getUserSubscription: the rows .maybeSingle() may return for userId
getUserSubscription(rs, userId) == Latest(rs, userId)

\* createSubscription up to the lookup.  existing = 0: no row.  A failed
\* lookup is thrown to the caller.
createSubscription(userId, planType, sub, cust, ok) ==
  /\ started' = started + 1
  /\ IF ok
     THEN /\ CanSuspend
          /\ \E e \in IF getUserSubscription(rows, userId) = {} THEN {0}
                      ELSE getUserSubscription(rows, userId) :
               inflight' = inflight \cup
                 {Pending(started + 1, "createSubscription", userId, planType, sub, cust, e,
                          IF e = 0 THEN "insert"
                          ELSE IF rows[e].status = "active" THEN "renew" ELSE "restart",
                          0, 0)}
          /\ UNCHANGED hist
     ELSE /\ CanStart
          /\ Respond(Summary(started + 1, "createSubscription", userId, planType, sub,
                             "throw", NULL, "read", TRUE,
                             Cardinality(ByUser(rows, userId)),
                             Cardinality(Latest(rows, userId)) <= 1, 0))
          /\ UNCHANGED inflight
  /\ UNCHANGED <<rows, now, ticks, access>>

\* updateSubscription that writes now as the period end
updateSubscription_endsNow(r, p) ==
  [r EXCEPT !.plan_type = p.plan,
            !.status = "active",
            !.stripe_subscription_id = Keep(p.sub, @),
            !.stripe_customer_id = Keep(p.cust, @),
            !.current_period_end = p.now,
            !.updated_at = p.now]

\* updateSubscription that restarts the period at the time of the call
updateSubscription_resetsStart(r, p) ==
  [r EXCEPT !.plan_type = p.plan,
            !.status = "active",
            !.stripe_subscription_id = Keep(p.sub, @),
            !.stripe_customer_id = Keep(p.cust, @),
            !.current_period_start = p.now,
            !.current_period_end = updatePeriodEnd(p.now, p.plan),
            !.updated_at = p.now]

\* updateSubscription(existingSubscription.id, ...): the row as updated
updateSubscription(r, p) ==
  [r EXCEPT !.plan_type = p.plan,
            !.status = "active",
            !.stripe_subscription_id = Keep(p.sub, @),
            !.stripe_customer_id = Keep(p.cust, @),
            !.current_period_end = updatePeriodEnd(p.now, p.plan),
            !.updated_at = p.now]

\* createSubscriptionUpdate that leaves the status as it was
createSubscriptionUpdate_keepsStatus(r, p) ==
  [r EXCEPT !.plan_type = p.plan,
            !.stripe_subscription_id = Keep(p.sub, @),
            !.stripe_customer_id = Keep(p.cust, @),
            !.current_period_start = p.now,
            !.current_period_end = createPeriodEnd(p.now, p.plan),
            !.updated_at = p.now]

\* createSubscription, existing row not active: the row as updated
createSubscriptionUpdate(r, p) ==
  [r EXCEPT !.plan_type = p.plan,
            !.status = "active",
            !.stripe_subscription_id = Keep(p.sub, @),
            !.stripe_customer_id = Keep(p.cust, @),
            !.current_period_start = p.now,
            !.current_period_end = createPeriodEnd(p.now, p.plan),
            !.updated_at = p.now]

\* createSubscription, no row: the row inserted; created_at and updated_at
\* are the store's
createSubscriptionInsert(id, p, t) ==
  [id |-> id, user_id |-> p.user, plan_type |-> p.plan, status |-> "active",
   stripe_customer_id |-> OrNull(p.cust),
   stripe_subscription_id |-> OrNull(p.sub),
   current_period_start |-> p.now,
   current_period_end |-> createPeriodEnd(p.now, p.plan),
   created_at |-> ColumnNow(t), updated_at |-> ColumnNow(t)]

\* the write of createSubscription: update by id, or insert; an error is
\* thrown to the caller
createSubscription_write(p, ok) ==
  /\ p \in inflight /\ p.op = "createSubscription"
  /\ ok /\ p.path = "insert" => Len(rows) < MaxRows
  /\ rows' = IF ~ok THEN rows
             ELSE CASE p.path = "renew" ->
                         [rows EXCEPT ![p.existing] = updateSubscription(@, p)]
                    [] p.path = "restart" ->
                         [rows EXCEPT ![p.existing] = createSubscriptionUpdate(@, p)]
                    [] OTHER ->
                         Append(rows, createSubscriptionInsert(Len(rows) + 1, p, now))
  /\ inflight' = IF ok THEN Written(p) ELSE inflight \ {p}
  /\ Respond(Summary(p.n, p.op, p.user, p.plan, p.sub,
                     IF ok THEN "return" ELSE "throw", NULL,
                     IF ok THEN "none" ELSE "write", p.clean, p.had, p.uniq,
                     IF ~ok THEN 0 ELSE IF p.path = "insert" THEN Len(rows) + 1
                     ELSE p.existing))
  /\ UNCHANGED <<now, ticks, started, access>>

\* updateSubscriptionStatus that raises an error when no row has the id
updateSubscriptionStatus_strict(id, status, ok) ==
  /\ CanStart
  /\ started' = started + 1
  /\ rows' = IF ok /\ id \in Ids(rows)
             THEN [rows EXCEPT ![id] = [@ EXCEPT !.status = status, !.updated_at = now]]
             ELSE rows
  /\ inflight' = IF ok /\ id \in Ids(rows) THEN Dirty(inflight) ELSE inflight
  /\ Respond(Summary(started + 1, "updateSubscriptionStatus", NULL, status, NULL,
                     IF ok /\ id \in Ids(rows) THEN "return" ELSE "throw", NULL,
                     IF ok THEN "none" ELSE "write", TRUE, 0, TRUE, id))
  /\ UNCHANGED <<now, ticks, access>>

\* updateSubscriptionStatus: .update({status, updated_at}).eq('id', id)
updateSubscriptionStatus(id, status, ok) ==
  /\ CanStart
  /\ started' = started + 1
  /\ rows' = IF ok /\ id \in Ids(rows)
             THEN [rows EXCEPT ![id] = [@ EXCEPT !.status = status, !.updated_at = now]]
             ELSE rows
  /\ inflight' = IF ok /\ id \in Ids(rows) THEN Dirty(inflight) ELSE inflight
  /\ Respond(Summary(started + 1, "updateSubscriptionStatus", NULL, status, NULL,
                     IF ok THEN "return" ELSE "throw", NULL,
                     IF ok THEN "none" ELSE "write", TRUE, 0, TRUE, id))
  /\ UNCHANGED <<now, ticks, access>>

\* checkSubscriptionAccess without its catch: a failed read is raised
checkSubscriptionAccess_nocatch(userId, ok) ==
  /\ CanStart
  /\ started' = started + 1
  /\ \E e \in IF ~ok \/ getUserSubscription(rows, userId) = {} THEN {0}
              ELSE getUserSubscription(rows, userId) :
       access' = [n |-> started + 1, user |-> userId, at |-> now, rfail |-> ~ok,
                  had |-> Cardinality(ByUser(rows, userId)),
                  prev |-> IF hist = <<>> THEN 0 ELSE hist[Len(hist)].n,
                  raised |-> ~ok,
                  out |-> fallbackAccessCheck(IF e = 0 THEN <<>> ELSE <<rows[e]>>, now)]
  /\ UNCHANGED <<rows, now, ticks, inflight, hist>>

\* checkSubscriptionAccess: getUserSubscription, then fallbackAccessCheck;
\* the catch returns the fail-open decision
checkSubscriptionAccess(userId, ok) ==
  /\ CanStart
  /\ started' = started + 1
  /\ \E e \in IF ~ok \/ getUserSubscription(rows, userId) = {} THEN {0}
              ELSE getUserSubscription(rows, userId) :
       access' = [n |-> started + 1, user |-> userId, at |-> now, rfail |-> ~ok,
                  had |-> Cardinality(ByUser(rows, userId)),
                  prev |-> IF hist = <<>> THEN 0 ELSE hist[Len(hist)].n,
                  raised |-> FALSE,
                  out |-> IF ~ok THEN FailOpen
                          ELSE fallbackAccessCheck(IF e = 0 THEN <<>> ELSE <<rows[e]>>, now)]
  /\ UNCHANGED <<rows, now, ticks, inflight, hist>>

\* getAllSubscriptions: every row, .order('created_at', {ascending: false});
\* the orders the store may return them in
getAllSubscriptions(rs) ==
  {q \in [Ids(rs) -> Ids(rs)] :
     /\ \A i, j \in Ids(rs) : i # j => q[i] # q[j]
     /\ \A i, j \in Ids(rs) : i < j => rs[q[i]].created_at >= rs[q[j]].created_at}

\* getSubscriptionStats: revenue in cents; churnRate = cancelled / total * 100
\* as the pair <<cancelled * 100, total>>
getSubscriptionStats(rs) ==
  LET Price(r) == CASE r.plan_type = "monthly" -> 299
                    [] r.plan_type = "semiannual" -> 999
                    [] r.plan_type = "annual" -> 1999
                    [] OTHER -> 0
      Sum[k \in 0..Len(rs)] == IF k = 0 THEN 0 ELSE Sum[k - 1] + Price(rs[k])
      total == Len(rs)
      cancelled == Cardinality({k \in Ids(rs) : rs[k].status = "cancelled"})
  IN [total |-> total,
      active |-> Cardinality({k \in Ids(rs) : rs[k].status = "active"}),
      trial |-> Cardinality({k \in Ids(rs) : rs[k].plan_type = "trial"}),
      paid |-> Cardinality({k \in Ids(rs) : rs[k].plan_type # "trial"}),
      revenue |-> Sum[Len(rs)],
      churnRate |-> IF total > 0 THEN <<cancelled * 100, total>> ELSE <<0, 1>>]

\* a call of getAllSubscriptions or getSubscriptionStats: one read; an error
\* is thrown to the caller.  had: the number of rows returned or counted.
adminRead(op, ok) ==
  /\ op \in {"getAllSubscriptions", "getSubscriptionStats"}
  /\ CanStart
  /\ started' = started + 1
  /\ \E q \in getAllSubscriptions(rows) :
       Respond(Summary(started + 1, op, NULL, NULL, NULL,
                       IF ok THEN "return" ELSE "throw", NULL,
                       IF ok THEN "none" ELSE "read", TRUE,
                       IF ~ok THEN 0
                       ELSE IF op = "getAllSubscriptions" THEN Len(q)
                       ELSE getSubscriptionStats(rows).total, TRUE, 0))
  /\ UNCHANGED <<rows, now, ticks, inflight, access>>

\* ---- the start, and the clock ------------------------------------------
\* The table at the start: empty, one row, or one row per owner, each row as
\* createSubscription inserts it at time 0 (and updateSubscriptionStatus may
\* have changed it since).  No operation tells the owners apart, so the
\* first row is u1's.
SeedRow(id, user, plan, status, sub) ==
  [createSubscriptionInsert(id, [user |-> user, plan |-> plan, sub |-> sub,
                                 cust |-> UNDEF, now |-> 0], 0)
     EXCEPT !.status = status]

SeedStores ==
  LET First == {SeedRow(1, "u1", "monthly", st, sb) :
                  st \in SeedStatuses, sb \in {UNDEF, "s1"}}
      Second(r) == {SeedRow(2, "u2", "annual", "active", sb) : sb \in SubRefs}
  IN {<<>>} \cup {<<r>> : r \in First}
            \cup UNION {{<<r, q>> : q \in Second(r)} : r \in First}

Init ==
  /\ rows \in SeedStores
  /\ now = 0
  /\ ticks = 0
  /\ inflight = {}
  /\ hist = <<>>
  /\ started = 0
  /\ access = [n |-> 0, user |-> NULL, at |-> 0, rfail |-> FALSE, had |-> 0,
               prev |-> 0, raised |-> FALSE, out |-> FailOpen]

Tick(d) ==
  /\ ticks < MaxTicks
  /\ ticks' = ticks + 1
  /\ now' = now + d
  /\ UNCHANGED <<rows, inflight, hist, started, access>>

\* ---- the system ----------------------------------------------------------
Activation ==
  \E user \in Owners, ok \in BOOLEAN :
       \/ \E plan \in CheckoutPlans, sub \in CheckoutSubs :
            handleSubscriptionUpdate("checkout.session.completed", user, plan, sub, ok)
       \/ \E plan \in IntentPlans :
            handleSubscriptionUpdate("payment_intent.succeeded", user, plan, UNDEF, ok)

ActivationWrite ==
  \E p \in inflight, ok \in BOOLEAN :
       \/ handleSubscriptionUpdate_update(p, ok)
       \/ handleSubscriptionUpdate_insert(p, ok)

Skipped ==
  \/ ActivationSkipped("checkout.session.completed", UNDEF, UNDEF)
  \/ \E user \in {"u1", UNDEF} : ActivationSkipped("payment_intent.succeeded", user, UNDEF)
  \/ \E op \in {"invoice.payment_succeeded", "invoice.payment_failed"} :
          InvoiceSkipped(op)

StatusEvent ==
  \E op \in {"invoice.payment_failed", "customer.subscription.deleted"},
     sub \in SubRefs, ok \in BOOLEAN : statusEvent(op, sub, ok)

InvoicePaid ==
  \E sub \in SubRefs :
       \/ invoicePaidRetrieveFails(sub)
       \/ \E per \in ReportedPeriods(now), ok \in BOOLEAN : invoicePaid(sub, per, ok)

InvoicePaidWrite == \E p \in inflight, ok \in BOOLEAN : invoicePaid_update(p, ok)

Create ==
  \E userId \in Owners, a \in ApiArgs, ok \in BOOLEAN :
       createSubscription(userId, a[1], a[2], UNDEF, ok)

CreateWrite == \E p \in inflight, ok \in BOOLEAN : createSubscription_write(p, ok)

SetStatus ==
  \E id \in 1..MaxRows, status \in ApiStatuses, ok \in BOOLEAN :
       updateSubscriptionStatus(id, status, ok)

CheckAccess == \E userId \in Owners, ok \in BOOLEAN : checkSubscriptionAccess(userId, ok)

AdminRead ==
  \E op \in {"getAllSubscriptions", "getSubscriptionStats"}, ok \in BOOLEAN :
       adminRead(op, ok)

Next ==
  \/ \E d \in Jumps : Tick(d)
  \/ Preflight
  \/ NoSignature
  \/ BadSignature
  \/ Unhandled
  \/ Skipped
  \/ Activation
  \/ ActivationWrite
  \/ StatusEvent
  \/ InvoicePaid
  \/ InvoicePaidWrite
  \/ Create
  \/ CreateWrite
  \/ SetStatus
  \/ CheckAccess
  \/ AdminRead

Spec == Init /\ [][Next]_vars

\* ---- the period computations on their own -------------------------------
\* the values data.planType / planType may take at run time: the four tiers,
\* any other string, and undefined
PeriodTiers == PlanTypes \cup {"other", UNDEF}

PeriodInit ==
  /\ rows = <<>>
  /\ now \in 0..MaxStart
  /\ ticks = 0
  /\ inflight = {}
  /\ hist = <<>>
  /\ started = 0
  /\ access = [n |-> 0, user |-> NULL, at |-> 0, rfail |-> FALSE, had |-> 0,
               prev |-> 0, raised |-> FALSE, out |-> FailOpen]

\* the three switch statements run on planType at time now
PeriodCompute(planType) ==
  /\ hist' = <<[tier |-> planType, at |-> now,
                webhook |-> webhookPeriodEnd(now, planType),
                create |-> createPeriodEnd(now, planType),
                update |-> updatePeriodEnd(now, planType)]>>
  /\ UNCHANGED <<rows, now, ticks, inflight, started, access>>

PeriodNext == \E planType \in PeriodTiers : PeriodCompute(planType)

PeriodSpec == PeriodInit /\ [][PeriodNext]_vars

\* ---- the feature gate on its own ------------------------------------------
\* getPlanFeatures run on planType (the clock is read by no part of it)
FeatureCompute(planType) ==
  /\ hist' = <<[tier |-> planType, at |-> now,
                features |-> getPlanFeatures(planType)]>>
  /\ UNCHANGED <<rows, now, ticks, inflight, started, access>>

FeatureNext == \E planType \in PeriodTiers : FeatureCompute(planType)

FeatureSpec == PeriodInit /\ [][FeatureNext]_vars

\* ---- one activation notification, redelivered until acknowledged --------
\* The notification waits in inflight with path "queued".  The store answers
\* every call; the processor delivers the notification again after each 400.
RetryEvents ==
  {<<"checkout.session.completed", "annual", "s1">>,
   <<"payment_intent.succeeded", "monthly", UNDEF>>}

RetryInit ==
  /\ rows \in SeedStores
  /\ now = 0
  /\ ticks = 0
  /\ hist = <<>>
  /\ started = 0
  /\ access = [n |-> 0, user |-> NULL, at |-> 0, rfail |-> FALSE, had |-> 0,
               prev |-> 0, raised |-> FALSE, out |-> FailOpen]
  /\ \E user \in Owners, e \in RetryEvents :
       inflight = {Pending(0, e[1], user, e[2], e[3], Customer, 0, "queued", 0, 0)}

\* a delivery: the handler runs up to its lookup
RetryDeliver ==
  \E q \in inflight :
       /\ q.path = "queued"
       /\ hist = <<>>
       /\ \A p \in inflight : p.path # "upsert"
       /\ handleSubscriptionUpdate(q.op, q.user, q.plan, q.sub, TRUE)

\* the handler's write, and its response
RetryWrite ==
  \E p \in inflight :
       \/ handleSubscriptionUpdate_update(p, TRUE)
       \/ handleSubscriptionUpdate_insert(p, TRUE)

\* the response was 400: the processor schedules the delivery again
RetryRedeliver ==
  /\ hist # <<>>
  /\ hist[Len(hist)].res = "400"
  /\ hist' = <<>>
  /\ started' = 0
  /\ UNCHANGED <<rows, now, ticks, inflight, access>>

RetryNext == RetryDeliver \/ RetryWrite \/ RetryRedeliver

RetrySpec ==
  /\ RetryInit
  /\ [][RetryNext]_vars
  /\ WF_vars(RetryDeliver)
  /\ WF_vars(RetryWrite)
  /\ WF_vars(RetryRedeliver)

\* ---- the claims ----------------------------------------------------------
Last == hist[Len(hist)]

Prev == hist[Len(hist) - 1]

Activations == {"checkout.session.completed", "payment_intent.succeeded"}

RefBound ==
  {"invoice.payment_succeeded", "invoice.payment_failed",
   "customer.subscription.deleted"}

\* an activation event that reached handleSubscriptionUpdate
Activated(s) == s.op \in Activations /\ s.user # UNDEF /\ s.plan # UNDEF

\* C1: a subscription_activated event handled alone (no other write between
\* its lookup and its write, no store failure) is acknowledged, updates in
\* place when the owner had a record and inserts exactly one row when the
\* owner had none, and leaves the owner's current record active with the
\* event's tier and billing refs.
C1_ActivationIsUpsert ==
  (hist # <<>> /\ Activated(Last) /\ Last.clean /\ Last.fail = "none")
    => /\ Last.res = "200"
       /\ Cardinality(ByUser(rows, Last.user)) = Max(Last.had, 1)
       /\ \A k \in Latest(rows, Last.user) :
            /\ rows[k].status = "active"
            /\ rows[k].plan_type = Last.plan
            /\ rows[k].stripe_subscription_id = OrNull(Last.sub)
            /\ rows[k].stripe_customer_id = Customer
            /\ rows[k].current_period_end =
                 webhookPeriodEnd(rows[k].current_period_start, Last.plan)

\* C2 (Scenario E): the owner has no record; two subscription_activated
\* events for the owner are handled, in any interleaving; then the owner has
\* exactly one record, active, with the tier of the event applied last.
C2_ScenarioE ==
  (/\ Len(hist) >= 2
   /\ Activated(Prev) /\ Activated(Last) /\ Prev.user = Last.user
   /\ Prev.res = "200" /\ Last.res = "200"
   /\ (IF Prev.n < Last.n THEN Prev.had ELSE Last.had) = 0)
    => /\ Cardinality(ByUser(rows, Last.user)) = 1
       /\ \A k \in ByUser(rows, Last.user) :
            rows[k].status = "active" /\ rows[k].plan_type = Last.plan

\* C3: for a record that is present, has_access is false when the status is
\* not active, false when now >= period_end, and true otherwise.
C3_AccessIsActiveAndUnexpired ==
  (access.n > 0 /\ access.out.subscription # <<>>)
    => LET sub == access.out.subscription[1]
       IN /\ sub.status # "active" => ~access.out.hasAccess
          /\ access.at >= sub.current_period_end => ~access.out.hasAccess
          /\ (sub.status = "active" /\ access.at < sub.current_period_end)
               => access.out.hasAccess

\* an active record whose period has ended was evaluated
C3_Witness ==
  /\ access.n > 0 /\ access.out.subscription # <<>>
  /\ access.out.subscription[1].status = "active"
  /\ access.at >= access.out.subscription[1].current_period_end
  /\ ~access.out.hasAccess

\* C4: checkAccess is fail-open and never raises: with no record for the
\* owner, or with a failed store read, it returns has_access = true, the
\* trial features and days_remaining = 30; and it does not modify the store.
C4_CheckAccessFailsOpen ==
  /\ []((access.n > 0 /\ (access.rfail \/ access.had = 0))
          => /\ ~access.raised
             /\ access.out.hasAccess
             /\ access.out.features = getTrialFeatures
             /\ access.out.daysRemaining = 30)
  /\ []((access.n > 0) => ~access.raised)
  /\ [][access' # access => rows' = rows]_vars

\* the store read failed for an owner who has a record
C4_Witness ==
  /\ access.n > 0 /\ access.rfail /\ access.had > 0
  /\ access.out.hasAccess /\ access.out.daysRemaining = 30

\* C5: a notification during whose handling a store write failed is answered
\* with a rejection, never with 200.
C5_WriteFailureIsRejected ==
  \A i \in 1..Len(hist) :
    (hist[i].op \in Activations \cup RefBound /\ hist[i].fail = "write")
      => hist[i].res = "400"

\* the step completes a reference-bound event that was ingested (the call
\* to Stripe, where there is one, did not fail)
RefBoundDone ==
  /\ hist' # hist
  /\ (hist')[Len(hist')].op \in RefBound
  /\ (hist')[Len(hist')].sub # NULL
  /\ (hist')[Len(hist')].fail # "stripe"

\* the step completes invoice_failed or subscription_cancelled for ref sub,
\* and the store did not fail
StatusApplied(op, sub) ==
  /\ hist' # hist
  /\ (hist')[Len(hist')].op = op
  /\ (hist')[Len(hist')].sub = sub
  /\ (hist')[Len(hist')].fail = "none"

StatusOf(op) == IF op = "invoice.payment_failed" THEN "past_due" ELSE "cancelled"

\* row r but for its status and updated_at
Unstamped(r) == [r EXCEPT !.status = "-", !.updated_at = 0]

\* C6: invoice_failed sets status = past_due and subscription_cancelled sets
\* status = cancelled on the records with the event's billing_subscription_ref,
\* leaving their period, tier, owner and billing refs as they were; records
\* with another ref are not modified.
C6_StatusEventsChangeStatusOnly ==
  [][\A op \in {"invoice.payment_failed", "customer.subscription.deleted"},
        sub \in SubRefs :
        StatusApplied(op, sub)
          => /\ Len(rows') = Len(rows)
             /\ \A k \in Ids(rows) :
                  IF rows[k].stripe_subscription_id = sub
                  THEN /\ rows'[k].status = StatusOf(op)
                       /\ Unstamped(rows'[k]) = Unstamped(rows[k])
                  ELSE rows'[k] = rows[k]]_vars

\* invoice_failed was applied to a record holding its ref while a record
\* with another ref is in the table
C6_Witness ==
  /\ hist # <<>> /\ Last.op = "invoice.payment_failed" /\ Last.fail = "none"
  /\ \E k \in Ids(rows) :
       rows[k].stripe_subscription_id = Last.sub /\ rows[k].status = "past_due"
  /\ \E k \in Ids(rows) :
       rows[k].stripe_subscription_id \in SubRefs \ {Last.sub}
       /\ rows[k].status = "active"

\* C7: when at least one record holds the event's billing_subscription_ref,
\* however many do, invoice_paid sets the status of each to active and its
\* period to the one Stripe reports, and leaves tier and owner as they were.
C7_InvoicePaidActivates ==
  [][(/\ hist' # hist
      /\ (hist')[Len(hist')].op = "invoice.payment_succeeded"
      /\ (hist')[Len(hist')].sub # NULL
      /\ (hist')[Len(hist')].fail = "none"
      /\ (hist')[Len(hist')].clean)
       => \A k \in BySub(rows, (hist')[Len(hist')].sub) :
            /\ rows'[k].status = "active"
            /\ rows'[k].current_period_end = rows'[k].current_period_start + 5 * Day
            /\ rows'[k].plan_type = rows[k].plan_type
            /\ rows'[k].user_id = rows[k].user_id]_vars

\* C8: a reference-bound event whose billing_subscription_ref matches no
\* record creates and modifies no record and is acknowledged with
\* 200 { received: true }.
C8_UnmatchedRefIsNoOp ==
  [][(RefBoundDone /\ BySub(rows, (hist')[Len(hist')].sub) = {})
       => /\ rows' = rows
          /\ (hist')[Len(hist')].res = "200"
          /\ (hist')[Len(hist')].body = "received"]_vars

\* an invoice_paid event for a ref no record holds was acknowledged, with
\* records in the table
C8_Witness ==
  /\ hist # <<>> /\ Last.op = "invoice.payment_succeeded" /\ Last.sub \in SubRefs
  /\ Last.fail = "none" /\ Last.res = "200"
  /\ rows # <<>> /\ BySub(rows, Last.sub) = {}

\* C9: invoice_failed (and subscription_cancelled) applied a second time for
\* the same ref leaves every record's status as the first application left
\* it, and changes no field but updated_at.
C9_StatusEventsIdempotent ==
  [][\A op \in {"invoice.payment_failed", "customer.subscription.deleted"},
        sub \in SubRefs :
        (/\ StatusApplied(op, sub)
         /\ hist # <<>> /\ Last.op = op /\ Last.sub = sub /\ Last.fail = "none")
          => /\ Len(rows') = Len(rows)
             /\ \A k \in Ids(rows) :
                  /\ rows'[k].status = rows[k].status
                  /\ [rows'[k] EXCEPT !.updated_at = 0] =
                       [rows[k] EXCEPT !.updated_at = 0]]_vars

\* subscription_cancelled was applied twice in a row, at different times, to
\* a record that holds its ref
C9_Witness ==
  /\ Len(hist) >= 2
  /\ Prev.op = "customer.subscription.deleted" /\ Last.op = Prev.op
  /\ Prev.sub = Last.sub /\ Prev.fail = "none" /\ Last.fail = "none"
  /\ \E k \in BySub(rows, Last.sub) :
       rows[k].status = "cancelled" /\ rows[k].updated_at > rows[k].created_at

\* C10: after a createOrRenew(owner, tier) that succeeded (run alone, on an
\* owner whose current record was unambiguous), a checkAccess(owner) that
\* follows with no operation between, reads the store and finds period_end
\* in the future returns has_access = true and the features of the tier.
C10_CreateThenCheck ==
  (/\ access.n > 0 /\ hist # <<>> /\ access.prev = Last.n
   /\ Last.op = "createSubscription" /\ Last.res = "return"
   /\ Last.clean /\ Last.uniq
   /\ access.user = Last.user /\ ~access.rfail
   /\ rows[Last.id].current_period_end > access.at)
    => /\ access.out.hasAccess
       /\ access.out.features = getPlanFeatures(Last.plan)
       /\ access.out.subscription = <<rows[Last.id]>>

\* the owner's record was not active before createOrRenew, and checkAccess
\* followed
C10_Witness ==
  /\ access.n > 0 /\ hist # <<>> /\ access.prev = Last.n
  /\ Last.op = "createSubscription" /\ Last.res = "return" /\ Last.had = 1
  /\ access.user = Last.user /\ ~access.rfail
  /\ access.out.hasAccess /\ access.out.features = getPlanFeatures("monthly")
  /\ rows[Last.id].created_at < rows[Last.id].current_period_start

\* the operation the step completes
Done == (hist')[Len(hist')]

\* C11: only the current record is operated on.  When the owner has several
\* rows, checkAccess evaluates the row with the latest created_at; and a
\* subscription_activated event or a createOrRenew call for the owner (handled
\* alone, the store answering) adds no row and changes no row but that one.
C11_CurrentRecordOnly ==
  /\ [][(access' # access /\ ~access'.rfail /\ access'.had >= 2)
          => \E k \in Latest(rows, access'.user) :
               access'.out.subscription = <<rows[k]>>]_vars
  /\ [][(/\ hist' # hist
         /\ Done.op = "createSubscription" \/ Activated(Done)
         /\ Done.fail = "none" /\ Done.clean /\ Done.uniq /\ Done.had >= 2)
          => /\ Len(rows') = Len(rows)
             /\ \A k \in Ids(rows) :
                  rows'[k] # rows[k] => k \in Latest(rows, Done.user)]_vars

\* C12: the same subscription_activated event applied twice, one after the
\* other, with no store failure: the second application is acknowledged, the
\* owner has as many records as after the first, the record the first wrote
\* is the one the second wrote, it is active with the event's tier and
\* billing refs, and its period is anchored at the second application.
C12_DuplicateActivationConverges ==
  (/\ Len(hist) >= 2 /\ Activated(Prev) /\ Activated(Last)
   /\ Prev.op = Last.op /\ Prev.user = Last.user
   /\ Prev.plan = Last.plan /\ Prev.sub = Last.sub
   /\ Prev.n < Last.n /\ Prev.clean /\ Last.clean
   /\ Prev.fail = "none" /\ Last.fail = "none" /\ Prev.res = "200")
    => /\ Last.res = "200"
       /\ Cardinality(ByUser(rows, Last.user)) = Last.had
       /\ Last.id = Prev.id
       /\ rows[Last.id].status = "active"
       /\ rows[Last.id].plan_type = Last.plan
       /\ rows[Last.id].stripe_subscription_id = OrNull(Last.sub)
       /\ rows[Last.id].stripe_customer_id = Customer
       /\ rows[Last.id].current_period_end =
            webhookPeriodEnd(rows[Last.id].updated_at, Last.plan)

\* C13: a POST without a signature header is answered 400 "No signature",
\* and a POST whose signature does not verify is answered 400; neither reads
\* or writes the store: the records are as they were and no operation is
\* left pending.
C13_SignatureGate ==
  /\ [](\A i \in 1..Len(hist) : hist[i].body = "No signature" => hist[i].res = "400")
  /\ [][(hist' # hist /\ Done.op = "POST")
          => /\ Done.res = "400"
             /\ Done.body \in {"No signature", "Webhook error"}
             /\ rows' = rows
             /\ inflight' = inflight]_vars

\* a POST without a signature and a POST with a bad one were both rejected,
\* with records in the table
C13_Witness ==
  /\ Len(hist) = 2 /\ rows # <<>>
  /\ Prev.op = "POST" /\ Prev.body = "No signature" /\ Prev.res = "400"
  /\ Last.op = "POST" /\ Last.body = "Webhook error" /\ Last.res = "400"

\* C14: a signed notification of a recognized type that lacks a required
\* field (an activation without owner id or without plan tier, an invoice
\* notification without subscription reference) is answered 400, not 200.
C14_MalformedIsRejected ==
  \A i \in 1..Len(hist) :
    (\/ hist[i].op \in Activations /\ (hist[i].user = UNDEF \/ hist[i].plan = UNDEF)
     \/ /\ hist[i].op \in {"invoice.payment_succeeded", "invoice.payment_failed"}
        /\ hist[i].sub = NULL)
      => hist[i].res = "400"

\* C15: a signed notification of an unrecognized type is acknowledged with
\* 200 { received: true } and inserts and updates no record.
C15_UnrecognizedIsNoOp ==
  [][(hist' # hist /\ Done.op = "other")
       => /\ Done.res = "200" /\ Done.body = "received"
          /\ rows' = rows
          /\ inflight' = inflight]_vars

\* a notification of an unrecognized type was acknowledged, with records in
\* the table
C15_Witness ==
  /\ hist # <<>> /\ rows # <<>>
  /\ Last.op = "other" /\ Last.res = "200" /\ Last.body = "received"

C17_UpdatedNotBeforeCreated ==
  \A k \in Ids(rows) : rows[k].updated_at >= rows[k].created_at

\* C18: records are never deleted: every step keeps every record, with its
\* id and its owner.
C18_NeverDeleted ==
  [][/\ Len(rows') >= Len(rows)
     /\ \A k \in Ids(rows) :
          rows'[k].id = rows[k].id /\ rows'[k].user_id = rows[k].user_id]_vars

\* subscription_cancelled was applied to a record, and the statistics were
\* read after it: the record is in the table, cancelled
C18_Witness ==
  /\ Len(hist) = 2
  /\ Prev.op = "customer.subscription.deleted" /\ Prev.fail = "none" /\ Prev.had >= 1
  /\ Last.op = "getSubscriptionStats" /\ Last.res = "return" /\ Last.had = Len(rows)
  /\ \E k \in BySub(rows, Prev.sub) : rows[k].status = "cancelled" /\ rows[k].id = k

\* C19: for a present record days_remaining is the least whole number of
\* days, not below 0, that covers period_end - now: never negative, 0 when
\* period_end <= now, 5 when period_end is five days after now.
C19_DaysRemaining ==
  (access.n > 0 /\ access.out.subscription # <<>>)
    => LET left == access.out.subscription[1].current_period_end - access.at
           d == access.out.daysRemaining
       IN /\ d >= 0
          /\ left <= 0 => d = 0
          /\ left > 0 => (d * Day >= left /\ (d - 1) * Day < left)
          /\ left = 5 * Day => d = 5

\* a record whose period ends five days ahead, and a record whose period
\* has ended, were evaluated
C19_Witness ==
  /\ access.n > 0 /\ access.out.subscription # <<>>
  /\ access.out.subscription[1].current_period_end = access.at + 5 * Day
  /\ access.out.daysRemaining = 5 /\ access.out.hasAccess

\* the duration of a tier, in days
C20_Duration(tier) ==
  CASE tier = "trial" -> 30
    [] tier = "monthly" -> 30
    [] tier = "semiannual" -> 180
    [] tier = "annual" -> 365
    [] OTHER -> 30

\* C20: for every tier value (the four tiers and any other value),
\* createSubscription, updateSubscription and handleSubscriptionUpdate each
\* compute period end = now + the tier's duration.
C20_PeriodDuration ==
  hist # <<>>
    => /\ hist[1].webhook = hist[1].at + C20_Duration(hist[1].tier) * Day
       /\ hist[1].create = hist[1].at + C20_Duration(hist[1].tier) * Day
       /\ hist[1].update = hist[1].at + C20_Duration(hist[1].tier) * Day

\* the webhook's switch, which has no trial case, was run on trial
C20_Witness ==
  /\ hist # <<>> /\ hist[1].tier = "trial" /\ hist[1].at > 0
  /\ hist[1].webhook = hist[1].at + 30 * Day
  /\ hist[1].webhook = hist[1].create

\* the feature set of a tier; -1 stands for unlimited
C21_Features(tier) ==
  CASE tier = "trial" ->
         [maxCustomers |-> 100, maxBranches |-> 1, advancedAnalytics |-> FALSE,
          prioritySupport |-> FALSE, customBranding |-> FALSE, apiAccess |-> FALSE]
    [] tier = "monthly" ->
         [maxCustomers |-> -1, maxBranches |-> -1, advancedAnalytics |-> TRUE,
          prioritySupport |-> TRUE, customBranding |-> FALSE, apiAccess |-> FALSE]
    [] tier \in {"semiannual", "annual"} ->
         [maxCustomers |-> -1, maxBranches |-> -1, advancedAnalytics |-> TRUE,
          prioritySupport |-> TRUE, customBranding |-> TRUE, apiAccess |-> TRUE]

\* C21: features(tier) is defined for each of the four tiers: trial yields
\* 100 customers, 1 branch and no flag; each paid tier yields unlimited
\* customers and branches, advanced analytics and priority support, and
\* custom branding and API access exactly when it is not monthly.
C21_FeaturesOfTier ==
  (hist # <<>> /\ hist[1].tier \in PlanTypes)
    => hist[1].features = C21_Features(hist[1].tier)

\* the features of semiannual were computed
C21_Witness ==
  /\ hist # <<>> /\ hist[1].tier = "semiannual"
  /\ hist[1].features.apiAccess /\ hist[1].features.customBranding
  /\ hist[1].features.maxCustomers = -1

\* C22: invoice_paid for which no period is supplied, applied to a matching
\* record, leaves the record with period_end >= now + duration(its tier).
C22_MonotonicExtension ==
  [][(/\ hist' # hist
      /\ Done.op = "invoice.payment_succeeded" /\ Done.sub # NULL
      /\ Done.fail = "period")
       => \A k \in BySub(rows, Done.sub) :
            rows'[k].current_period_end
              >= now + C20_Duration(rows[k].plan_type) * Day]_vars

\* C23: with the store available and every rejected notification delivered
\* again, a subscription_activated notification is eventually acknowledged
\* with 200, and its owner then has an active record.
C23_ActivationTakesEffect ==
  <>(/\ hist # <<>>
     /\ Last.res = "200"
     /\ \E k \in ByUser(rows, Last.user) : rows[k].status = "active")

\* the table with the rows of every other owner taken out
OwnRows(rs, u) == SelectSeq(rs, LAMBDA r : r.user_id = u)

\* what the step that completes an activation did
Outcome ==
  IF Done.res = "400" THEN "reject"
  ELSE IF Len(rows') > Len(rows) THEN "insert" ELSE "update"

\* C24: a subscription_activated event for an owner (handled alone, the store
\* answering) has the outcome it has on the table that holds the owner's rows
\* only: insert or update, acknowledged or rejected, do not depend on the
\* rows of other owners; and it modifies no row of another owner.
C24_OwnerIsolation ==
  [][(hist' # hist /\ Activated(Done) /\ Done.clean /\ Done.fail = "none")
       => /\ Outcome = activationOutcome(OwnRows(rows, Done.user), Done.user)
          /\ \A k \in Ids(rows) :
               rows[k].user_id # Done.user => rows'[k] = rows[k]]_vars

\* the outcome of every activation handled alone is the one activationOutcome
\* gives for the table as it is
ActivationOutcomeIsActual ==
  [][(hist' # hist /\ Activated(Done) /\ Done.clean /\ Done.fail = "none")
       => Outcome = activationOutcome(rows, Done.user)]_vars

\* the status a reference-bound event sets
C25_StatusSet(op) ==
  CASE op = "invoice.payment_succeeded" -> "active"
    [] op = "invoice.payment_failed" -> "past_due"
    [] OTHER -> "cancelled"

\* C25: reference-bound events are applied in arrival order with no ordering
\* guard: a reference-bound event processed serially (acknowledged, no store
\* failure) leaves the record that holds its ref with the status the event
\* sets (invoice_paid -> active, invoice_failed -> past_due,
\* subscription_cancelled -> cancelled), whatever status an earlier event left
\* there; a late invoice_failed after subscription_cancelled leaves past_due.
C25_LastEventWins ==
  [][(/\ hist' # hist
      /\ Done.op \in RefBound
      /\ Done.sub # NULL
      /\ Done.fail = "none"
      /\ Done.res = "200"
      /\ Done.clean
      /\ Done.had = 1)
       => \A k \in BySub(rows, Done.sub) :
            /\ rows'[k].status = C25_StatusSet(Done.op)
            /\ rows'[k].stripe_subscription_id = Done.sub]_vars

\* subscription_cancelled and then invoice_failed were applied for the same
\* ref, and the record that holds it is past_due
C25_Witness ==
  /\ Len(hist) >= 2
  /\ Prev.op = "customer.subscription.deleted" /\ Prev.fail = "none" /\ Prev.had = 1
  /\ Last.op = "invoice.payment_failed" /\ Last.fail = "none" /\ Last.had = 1
  /\ Prev.sub = Last.sub
  /\ \E k \in BySub(rows, Last.sub) : rows[k].status = "past_due"

\* invoice_failed or subscription_cancelled was the last operation applied,
\* with no store failure, and owner u's current record holds its ref
C26_Revoked(u) ==
  /\ hist # <<>>
  /\ Last.op \in {"invoice.payment_failed", "customer.subscription.deleted"}
  /\ Last.fail = "none"
  /\ Last.sub # NULL
  /\ Latest(rows, u) # {}
  /\ \A k \in Latest(rows, u) : rows[k].stripe_subscription_id = Last.sub

\* C26 as stated: once invoice_failed or subscription_cancelled has been
\* applied to an owner's current record, every checkAccess for that owner
\* returns has_access = false until a later operation re-activates the record.
C26_RevocationVisible ==
  [][(access' # access /\ C26_Revoked(access'.user))
       => ~access'.out.hasAccess]_vars

\* C26 amended: once invoice_failed or subscription_cancelled has been
\* applied to an owner's current record, every checkAccess for that owner
\* whose store read succeeds returns has_access = false, even while period_end
\* is in the future, until a later operation re-activates the record.
C26_RevocationVisibleOnRead ==
  [][(access' # access /\ C26_Revoked(access'.user) /\ ~access'.rfail)
       => ~access'.out.hasAccess]_vars

\* a checkAccess read the record of an owner that the last operation, a
\* subscription_cancelled, revoked, with the period still running, and denied
C26_Witness ==
  /\ C26_Revoked(access.user)
  /\ Last.op = "customer.subscription.deleted"
  /\ access.prev = Last.n
  /\ ~access.rfail
  /\ ~access.out.hasAccess
  /\ access.out.subscription # <<>>
  /\ access.out.subscription[1].status = "cancelled"
  /\ access.out.subscription[1].current_period_end > access.at

\* C27: after a payment_intent.succeeded activation was applied for an owner
\* who had a record, a following reference-bound event matches none of that
\* owner's records (their ref was overwritten with null) and leaves them
\* unchanged.
C27_RefCleared ==
  [][(/\ RefBoundDone
      /\ hist # <<>>
      /\ Last.op = "payment_intent.succeeded"
      /\ Last.res = "200" /\ Last.fail = "none" /\ Last.clean
      /\ Last.had >= 1)
       => /\ BySub(rows, Done.sub) \cap ByUser(rows, Last.user) = {}
          /\ \A k \in ByUser(rows, Last.user) : rows'[k] = rows[k]]_vars

\* C28: a createOrRenew that returns, run without interleaving for an owner
\* with at most one row, leaves that owner with exactly one row.  With a row
\* that was active it renews it (updateSubscription): tier as given, status
\* active, period_end = now + duration(tier), period_start as it was.  With
\* a row that was not active it also resets period_start to now.
C28_CreateOrRenew ==
  [][(/\ hist' # hist
      /\ Done.op = "createSubscription"
      /\ Done.res = "return"
      /\ Done.clean
      /\ Done.had <= 1)
       => /\ Cardinality(ByUser(rows', Done.user)) = 1
          /\ Done.id \in ByUser(rows', Done.user)
          /\ Done.had = 0 => Len(rows') = Len(rows) + 1 /\ Done.id = Len(rows')
          /\ Done.had = 1 =>
               LET old == rows[Done.id]
                   new == rows'[Done.id]
               IN /\ Len(rows') = Len(rows)
                  /\ new.plan_type = Done.plan
                  /\ new.status = "active"
                  /\ new.current_period_end =
                       new.updated_at + C20_Duration(Done.plan) * Day
                  /\ new.current_period_start =
                       IF old.status = "active" THEN old.current_period_start
                       ELSE new.updated_at]_vars

\* createOrRenew was called twice for an owner who had no row: the first
\* call inserted, the second, later, renewed the active record and left its
\* period_start where the first had put it
C28_Witness ==
  /\ Len(hist) >= 2
  /\ Prev.op = "createSubscription" /\ Last.op = "createSubscription"
  /\ Prev.res = "return" /\ Last.res = "return"
  /\ Prev.user = Last.user
  /\ Prev.had = 0 /\ Last.had = 1
  /\ Last.id = Prev.id
  /\ Cardinality(ByUser(rows, Last.user)) = 1
  /\ rows[Last.id].current_period_start < rows[Last.id].updated_at
  /\ rows[Last.id].current_period_end =
       rows[Last.id].updated_at + C20_Duration(Last.plan) * Day

\* C29: setStatus(id, status) that the store answers returns without error
\* and changes only status and updated_at of the row with that id: its
\* period, tier, owner and billing refs, and every other row, are as they
\* were; with no row of that id nothing changes and no error is raised.
\* When the store write fails the error is raised and nothing changes.
C29_SetStatusFrame ==
  [][(hist' # hist /\ Done.op = "updateSubscriptionStatus")
       => IF Done.fail = "none"
          THEN /\ Done.res = "return"
               /\ Len(rows') = Len(rows)
               /\ \A k \in Ids(rows) :
                    IF k = Done.id
                    THEN /\ rows'[k].status = Done.plan
                         /\ Unstamped(rows'[k]) = Unstamped(rows[k])
                    ELSE rows'[k] = rows[k]
               /\ Done.id \notin Ids(rows) => rows' = rows
          ELSE /\ Done.res = "throw"
               /\ rows' = rows]_vars

\* setStatus cancelled an active row that is not the only one, and then a
\* setStatus for an id that no row has returned without error
C29_Witness ==
  /\ Len(hist) >= 2
  /\ Prev.op = "updateSubscriptionStatus" /\ Last.op = "updateSubscriptionStatus"
  /\ Prev.fail = "none" /\ Last.fail = "none"
  /\ Prev.id \in Ids(rows) /\ Prev.plan = "cancelled"
  /\ rows[Prev.id].status = "cancelled"
  /\ Len(rows) >= 2
  /\ Last.id \notin Ids(rows) /\ Last.res = "return"

====
